---- MODULE Spec2Model ----
(***************************************************************************)
(* Model of MT_matrix (multi-threaded matrix multiplication, one forked    *)
(* child per worker thread, results returned through a pipe) and of the    *)
(* My_proc kernel module behind /proc/thread_info.                         *)
(*                                                                         *)
(* Three specifications share the variables:                               *)
(*   Spec      the whole program: multiply(), the worker threads, their    *)
(*             children, the pipes, the mutex and the proc handler;        *)
(*   SpecPart  multiply()'s task-creating loop over a wider range of       *)
(*             row counts and thread counts;                               *)
(*   SpecChan  the proc handler under arbitrary write/read calls on a      *)
(*             small number of open handles.                               *)
(*                                                                         *)
(* Bytes are modelled as one-character strings, C arrays of bytes as       *)
(* sequences indexed from 1 (array index i is sequence index i+1).         *)
(***************************************************************************)
EXTENDS Integers, Sequences, FiniteSets, TLC

(***************************************************************************)
(* Bounds of the model                                                     *)
(***************************************************************************)
MaxThreads == 2

MaxRows == 2

MaxCols == 2

MaxInner == 2

MaxPartRows == 10

MaxPartThreads == 4

MaxCalls == 3

\* The highest second the clock reaches in SpecTime.
MaxSec == 2

\* The highest number of write-then-read pairs on the handle of SpecRepeat.
MaxPairs == 3

(***************************************************************************)
(* Program constants                                                       *)
(***************************************************************************)
BUF_SIZE == 1000

PROCFS_MAX_SIZE == 1024

INT_MAX == 2147483647

\* pid the kernel gives to the first forked child; worker n's child gets
\* FirstChildPid + n (fork() returns a distinct positive pid per child).
FirstChildPid == 9

\* Marks an int object that was allocated but never assigned (malloc'ed
\* memory).  It is INT_MIN, which no row index and no product of the
\* bounded inputs equals.
Uninit == (0 - INT_MAX) - 1

\* "No thread": the value of the mutex owner when the mutex is free.
NoOwner == 0 - 1

(***************************************************************************)
(* Characters and C strings                                                *)
(***************************************************************************)
NUL == "NUL"

LF == "LF"

TAB == "TAB"

Digits == <<"0", "1", "2", "3", "4", "5", "6", "7", "8", "9">>

IsDigit(ch) == \E d \in 1..10 : Digits[d] = ch

DigitVal(ch) == (CHOOSE d \in 1..10 : Digits[d] = ch) - 1

IsSpace(ch) == ch \in {" ", LF, TAB}

Min(a, b) == IF a < b THEN a ELSE b

\* Byte i (0-based) of a C array held as a sequence; a static or
\* zero-initialised array holds NUL wherever nothing was stored.
ByteAt(arr, i) == IF i + 1 <= Len(arr) THEN arr[i + 1] ELSE NUL

\* n NUL bytes.
Zeros(n) == [k \in 1..n |-> NUL]

\* The first n bytes of a C array held as a sequence.
Bytes(arr, n) ==
    IF n <= Len(arr) THEN SubSeq(arr, 1, n)
    ELSE arr \o Zeros(n - Len(arr))

\* arr with byte i (0-based) replaced by ch.
StoreByte(arr, i, ch) ==
    IF i + 1 <= Len(arr) THEN [arr EXCEPT ![i + 1] = ch]
    ELSE arr \o Zeros(i - Len(arr)) \o <<ch>>

\* arr with its first Len(src) bytes replaced by src (a copy to offset 0).
CopyInto(arr, src) ==
    IF Len(src) >= Len(arr) THEN src
    ELSE src \o SubSeq(arr, Len(src) + 1, Len(arr))

\* strlen(): number of bytes before the first NUL; an array held as a
\* sequence holds NUL past its last element.
StrLen(arr) ==
    IF \E i \in 1..Len(arr) : arr[i] = NUL
    THEN (CHOOSE i \in 1..Len(arr) :
              arr[i] = NUL /\ \A j \in 1..(i - 1) : arr[j] # NUL) - 1
    ELSE Len(arr)

\* The C string an array holds: its bytes up to the first NUL.
CStr(arr) == SubSeq(arr, 1, StrLen(arr))

\* printf("%d"): decimal text of an integer.
RECURSIVE NatToStr(_)
NatToStr(v) ==
    IF v < 10 THEN <<Digits[v + 1]>>
    ELSE NatToStr(v \div 10) \o <<Digits[(v % 10) + 1]>>

IntToStr(v) == IF v < 0 THEN <<"-">> \o NatToStr(0 - v) ELSE NatToStr(v)

\* Value of the longest run of digits starting at s[i], continuing acc.
RECURSIVE DigitsValue(_, _, _)
DigitsValue(s, i, acc) ==
    IF i <= Len(s) /\ IsDigit(s[i])
    THEN DigitsValue(s, i + 1, acc * 10 + DigitVal(s[i]))
    ELSE acc

\* Index just past the longest run of digits starting at s[i].
RECURSIVE DigitsEnd(_, _)
DigitsEnd(s, i) ==
    IF i <= Len(s) /\ IsDigit(s[i]) THEN DigitsEnd(s, i + 1) ELSE i

\* Index of the first non-space character at or after s[i].
RECURSIVE SkipSpace(_, _)
SkipSpace(s, i) ==
    IF i <= Len(s) /\ IsSpace(s[i]) THEN SkipSpace(s, i + 1) ELSE i

\* atoi(): optional white space, optional sign, then digits; stops at the
\* first character that is not a digit, 0 when there is no digit.
Atoi(arr) ==
    LET s == CStr(arr)
        i == SkipSpace(s, 1)
        neg == i <= Len(s) /\ s[i] = "-"
        j == IF i <= Len(s) /\ s[i] \in {"-", "+"} THEN i + 1 ELSE i
        v == DigitsValue(s, j, 0)
    IN  IF neg THEN 0 - v ELSE v

\* kstrtoint(s, 10, &res): optional sign, at least one digit, at most one
\* trailing newline, then the end of the string; the value must fit an int.
\* ok is FALSE where the kernel returns -EINVAL or -ERANGE.
Kstrtoint(arr) ==
    CHOOSE res \in
        { LET neg == Len(s) >= 1 /\ s[1] = "-"
              i == IF Len(s) >= 1 /\ s[1] \in {"-", "+"} THEN 2 ELSE 1
              e == DigitsEnd(s, i)
              rest == IF e <= Len(s) /\ s[e] = LF THEN e + 1 ELSE e
              v == DigitsValue(s, i, 0)
              val == IF neg THEN 0 - v ELSE v
          IN  [ok |-> e > i /\ rest = Len(s) + 1
                       /\ val <= INT_MAX /\ val >= (0 - INT_MAX) - 1,
               val |-> val] : s \in {CStr(arr)} } : TRUE

(***************************************************************************)
(* My_proc: the handler of /proc/thread_info                               *)
(***************************************************************************)
RecordHead == <<"T", "h", "r", "e", "a", "d", "I", "D", ":">>

RecordTime == <<" ", "T", "i", "m", "e", ":">>

RecordSwitch ==
    <<"(", "m", "s", ")", " ", "c", "o", "n", "t", "e", "x", "t", " ",
      "s", "w", "i", "t", "c", "h", " ", "t", "i", "m", "e", "s", ":">>

\* Mutant of FormatRecord: the user time is divided by 1000 once only.
FormatRecordMicros(id, utime, nvcsw, nivcsw) ==
    RecordHead \o IntToStr(id) \o RecordTime
        \o IntToStr(utime \div 1000)
        \o RecordSwitch \o IntToStr(nvcsw + nivcsw) \o <<LF>>

\* sprintf(procfs_buffer, "ThreadID:%d Time:%lld(ms) context switch times:%ld\n", ...)
FormatRecord(id, utime, nvcsw, nivcsw) ==
    RecordHead \o IntToStr(id) \o RecordTime
        \o IntToStr((utime \div 1000) \div 1000)
        \o RecordSwitch \o IntToStr(nvcsw + nivcsw) \o <<LF>>

\* Mutant of WriteOffset: the write leaves the handle's offset alone.
WriteOffsetKept(off, size) == off

\* Line 117: *off += procfs_buffer_size.
WriteOffset(off, size) == off + size

\* Mutant of AtEnd: only an offset past the recorded size is at the end.
AtEndPast(off, len) == off > len

\* Line 64: the handle's offset is at or past the recorded size.
AtEnd(off, len) == off >= len

\* Mutant of Accepted: the length is taken as it comes.
AcceptedUnbounded(len) == len

\* Lines 104-106: procfs_buffer_size = len, cut down to PROCFS_MAX_SIZE.
Accepted(len) == IF len > PROCFS_MAX_SIZE THEN PROCFS_MAX_SIZE ELSE len

\* Mutant of TermIndex: the terminator goes to the start of the buffer.
TermIndexZero(size) == 0

\* Line 116: the index of the terminator, size & (PROCFS_MAX_SIZE - 1),
\* PROCFS_MAX_SIZE being a power of two.
TermIndex(size) == size % PROCFS_MAX_SIZE

\* procfile_write(file, buff, len, off) on the state (buf, size), the
\* handle's offset off and the task table (pid -> accounting fields).
\* fault: copy_from_user() fails.  Yields the new buffer, size and offset
\* and the return value.
procfile_write(buf, size, off, buff, len, fault, table) ==
    LET size1 == Accepted(len)
        idx == TermIndex(size1)
    IN  CHOOSE res \in
        { LET parsed == Kstrtoint(term)
          IN  IF fault
              THEN [buf |-> buf, size |-> size1, off |-> off, ret |-> 0 - 14]
              ELSE IF ~parsed.ok
              THEN [buf |-> term, size |-> size1,
                    off |-> WriteOffset(off, size1), ret |-> 0]
              ELSE IF parsed.val \in DOMAIN table
              THEN LET p == table[parsed.val]
                       rec == FormatRecord(parsed.val, p.utime, p.nvcsw,
                                           p.nivcsw)
                   IN  [buf |-> StoreByte(CopyInto(term, rec), Len(rec), NUL),
                        size |-> Len(rec), off |-> WriteOffset(off, size1),
                        ret |-> Len(rec)]
              ELSE [buf |-> term, size |-> size1,
                    off |-> WriteOffset(off, size1), ret |-> size1]
            \* the buffer after the copy of line 112 and the NUL of line 116
            : term \in {StoreByte(CopyInto(buf, Bytes(buff, size1)), idx, NUL)}
        } : TRUE

\* procfile_read(filePointer, buffer, buffer_length, offset): ubuf is the
\* caller's buffer.  fault: copy_to_user() fails.  Yields the caller's
\* buffer, the handle's offset and the return value.
procfile_read(buf, size, off, ubuf, buffer_length, fault) ==
    IF AtEnd(off, size) \/ fault
    THEN [ubuf |-> ubuf, off |-> off, ret |-> 0]
    ELSE [ubuf |-> CopyInto(ubuf, Bytes(buf, size)),
          off |-> off + size, ret |-> size]

(***************************************************************************)
(* MT_matrix: state                                                        *)
(***************************************************************************)
VARIABLES
    n_thread,            \* requested number of worker threads
    m1, m2, m,           \* input matrices and the result matrix
    t,                   \* Task array of multiply()
    start_row, n, mpc,   \* locals and position of the main thread
    wpc,                 \* position of each worker thread
    wt,                  \* each worker's copy of its Task
    pid,                 \* each worker's fork() result
    f_pos,               \* file offset of each worker's /proc handle
    ubuf,                \* each worker's buffer for the proc transaction
    wret, rret,          \* results of the worker's write() and read()
    cpc,                 \* each child's position
    pipe,                \* messages in flight in each worker's pipe
    mutex,               \* owner of the mutex, NoOwner when free
    procfs_buffer, procfs_buffer_size,
    tasks,               \* the kernel's task list: pid -> accounting fields
    console,             \* lines printed so far
    out_file,            \* result.txt: whether it exists, and its matrix
    stored,              \* history: which workers stored each result cell
    last_write,          \* history: the caller of the latest procfile_write
    chan_log,            \* history: the calls made on /proc/thread_info (SpecChan)
    now,                 \* the reading of CLOCK_MONOTONIC
    startTime, endTime,  \* the timestamps multiply() takes
    totalTime,           \* the elapsed time main() prints
    fifo,                \* the bytes in flight in each worker's pipe (SpecPipe)
    cbuf, pbuf,          \* the pipe buffers of each child and each parent
    cpos, ppos,          \* the r, c loop indices of each child and each parent
    sent, recvd          \* history: the sums written and the values stored

clockVars == <<now, startTime, endTime, totalTime>>

mainVars == <<n_thread, m1, m2, t, start_row, n, mpc, out_file, clockVars>>

pipeVars == <<fifo, cbuf, pbuf, cpos, ppos, sent, recvd>>

workerVars == <<wpc, wt, pid, f_pos, ubuf, wret, rret>>

childVars == <<cpc, pipe>>

chanVars == <<procfs_buffer, procfs_buffer_size, last_write, chan_log>>

vars == <<mainVars, workerVars, childVars, chanVars, pipeVars, m, stored,
          mutex, tasks, console>>

Workers == 0..(MaxThreads - 1)

MainThread == 0 - 1

\* The matrix a file of consecutive integers starting at base loads as.
InputMatrix(rows, cols, base) ==
    [row |-> rows, col |-> cols,
     data |-> [r \in 0..(rows - 1) |->
                 [c \in 0..(cols - 1) |-> base + r * cols + c]]]

NullMatrix == [row |-> 0, col |-> 0, data |-> <<>>]

\* Accounting fields the kernel holds for a child when it is queried.
ChildStats == [utime |-> 2500000, nvcsw |-> 2, nivcsw |-> 1]

Line(who, kind, text) == [who |-> who, kind |-> kind, text |-> text]

\* Mutant of ConsoleWrite: the line is placed by thread index, before the
\* lines of every higher thread.
ConsoleWriteByIndex(out, line) ==
    SelectSeq(out, LAMBDA l : l.who <= line.who) \o <<line>>
        \o SelectSeq(out, LAMBDA l : l.who > line.who)

\* printf(): the line is added at the end of what the console shows.
ConsoleWrite(out, line) == Append(out, line)

\* A struct timespec.
Timespec(sec, nsec) == [tv_sec |-> sec, tv_nsec |-> nsec]

\* The readings the clock takes: each second up to MaxSec with the lowest,
\* a middle and the highest nanosecond field.
Timestamps == { Timespec(sec, nsec) : sec \in 0..MaxSec,
                                      nsec \in {0, 500000000, 999999999} }

\* Timestamp a is not later than timestamp b.
NotLater(a, b) ==
    \/ a.tv_sec < b.tv_sec
    \/ a.tv_sec = b.tv_sec /\ a.tv_nsec <= b.tv_nsec

\* The pipes before any child was forked.
PipeInit ==
    /\ fifo = [w \in Workers |-> <<>>]
    /\ cbuf = [w \in Workers |-> <<>>]
    /\ pbuf = [w \in Workers |-> <<>>]
    /\ cpos = [w \in Workers |-> [r |-> 0, c |-> 0]]
    /\ ppos = [w \in Workers |-> [r |-> 0, c |-> 0]]
    /\ sent = [w \in Workers |-> <<>>]
    /\ recvd = [w \in Workers |-> <<>>]

\* The clock and the zero-initialised globals startTime, endTime and
\* totalTime when the program starts.
ClockInit ==
    /\ now = Timespec(0, 0)
    /\ startTime = Timespec(0, 0)
    /\ endTime = Timespec(0, 0)
    /\ totalTime = 0

TypeOK ==
    /\ now \in Timestamps /\ startTime \in Timestamps
    /\ endTime \in Timestamps
    /\ totalTime \in (0 - MaxSec)..MaxSec
    /\ n_thread \in (0 - 1)..(MaxThreads + 1)
    /\ mpc \in {"multiply", "create", "assign", "join", "returned", "exit"}
    /\ wpc \in [Workers -> {"none", "start", "collect", "lock", "read",
                            "wait", "done"}]
    /\ cpc \in [Workers -> {"none", "compute", "exit", "zombie", "reaped"}]
    /\ mutex \in Workers \cup {NoOwner}
    /\ procfs_buffer_size \in 0..PROCFS_MAX_SIZE

Init ==
    /\ n_thread \in (0 - 1)..MaxThreads
    /\ \E r1 \in 0..MaxRows, k2 \in 1..MaxInner :
          /\ m1 = InputMatrix(r1, MaxInner, 1)
          /\ m2 = InputMatrix(k2, MaxCols, 5)
    /\ m = NullMatrix
    /\ t = <<>>
    /\ start_row = 0
    /\ n = 0
    /\ mpc = "multiply"
    /\ wpc = [w \in Workers |-> "none"]
    /\ wt = [w \in Workers |-> [start_row |-> 0, end_row |-> 0]]
    /\ pid = [w \in Workers |-> 0]
    /\ f_pos = [w \in Workers |-> 0]
    /\ ubuf = [w \in Workers |-> <<>>]
    /\ wret = [w \in Workers |-> 0]
    /\ rret = [w \in Workers |-> 0]
    /\ cpc = [w \in Workers |-> "none"]
    /\ pipe = [w \in Workers |-> <<>>]
    /\ mutex = NoOwner
    /\ procfs_buffer = <<>>
    /\ procfs_buffer_size = 0
    /\ tasks = <<>>
    /\ console = <<>>
    /\ out_file = [exists |-> FALSE, data |-> <<>>]
    /\ stored = <<>>
    /\ last_write = NoOwner
    /\ chan_log = <<>>
    /\ ClockInit
    /\ PipeInit

(***************************************************************************)
(* MT_matrix: multiply() and main()                                        *)
(***************************************************************************)
\* Mutant of DimensionsMatch: the test of line 231 is missing.
DimensionsMatchAlways(a, b) == TRUE

\* The test of line 231 negated: the product is defined.
DimensionsMatch(a, b) == a.col = b.row

\* Mutant of EndRow: the comparison of line 284 is <= instead of <.
EndRowOffByOne(start, rows, nthreads, idx) ==
    IF idx <= rows % nthreads
    THEN start + rows \div nthreads + 1
    ELSE start + rows \div nthreads

\* t[idx].end_row as lines 284-287 compute it.
EndRow(start, rows, nthreads, idx) ==
    IF idx < rows % nthreads
    THEN start + rows \div nthreads + 1
    ELSE start + rows \div nthreads

\* Lines 231-270: the dimension test, the allocations, "PID:" and the
\* initialisation of the loop.  malloc(sizeof(T) * n_thread) fails for a
\* negative n_thread, whose conversion to size_t is huge.
multiply_begin ==
    /\ mpc = "multiply"
    /\ IF ~DimensionsMatch(m1, m2)
       THEN /\ console' = ConsoleWrite(console,
                   Line(MainThread, "error", "Cannot do matrix multiplication."))
            /\ mpc' = "returned"
            /\ UNCHANGED <<m, t, start_row, n, stored, startTime>>
       ELSE /\ m' = [row |-> m1.row, col |-> m2.col,
                     data |-> [r \in 0..(m1.row - 1) |->
                                 [c \in 0..(m2.col - 1) |-> Uninit]]]
            /\ stored' = [r \in 0..(m1.row - 1) |->
                            [c \in 0..(m2.col - 1) |-> {}]]
            /\ IF n_thread < 0
               THEN /\ console' = ConsoleWrite(console,
                           Line(MainThread, "error", "Malloc failed."))
                    /\ mpc' = "returned"
                    /\ UNCHANGED <<t, start_row, n, startTime>>
               ELSE /\ console' = ConsoleWrite(console,
                           Line(MainThread, "pid", "PID:"))
                    /\ t' = [k \in 0..(n_thread - 1) |->
                               [start_row |-> Uninit, end_row |-> Uninit]]
                    /\ start_row' = 0
                    /\ startTime' = now
                    /\ n' = 0
                    /\ mpc' = "create"
    /\ UNCHANGED <<pipeVars, n_thread, m1, m2, out_file, workerVars, childVars,
                   chanVars, mutex, tasks, now, endTime, totalTime>>

\* Lines 273-280: the loop test, t[n].start_row and pthread_create().
multiply_create ==
    /\ mpc = "create"
    /\ IF n < n_thread
       THEN /\ t' = [t EXCEPT ![n].start_row = start_row]
            /\ wpc' = [wpc EXCEPT ![n] = "start"]
            /\ mpc' = "assign"
            /\ n' = n
       ELSE /\ mpc' = "join"
            /\ n' = 0
            /\ UNCHANGED <<t, wpc>>
    /\ UNCHANGED <<pipeVars, n_thread, m1, m2, start_row, out_file, wt, pid,
                   f_pos, ubuf, wret, rret, childVars, chanVars, m, stored,
                   mutex, tasks, console, clockVars>>

\* Lines 284-289: t[n].end_row, written after the thread was created.
multiply_assign ==
    /\ mpc = "assign"
    /\ LET e == EndRow(t[n].start_row, m.row, n_thread, n)
       IN  /\ t' = [t EXCEPT ![n].end_row = e]
           /\ start_row' = e
    /\ n' = n + 1
    /\ mpc' = "create"
    /\ UNCHANGED <<pipeVars, n_thread, m1, m2, out_file, workerVars, childVars,
                   chanVars, m, stored, mutex, tasks, console, clockVars>>

\* Lines 293-295: pthread_join(tids[n]) returns once worker n has returned.
multiply_join ==
    /\ mpc = "join"
    /\ n < n_thread
    /\ wpc[n] = "done"
    /\ n' = n + 1
    /\ UNCHANGED <<pipeVars, n_thread, m1, m2, t, start_row, mpc, out_file,
                   workerVars, childVars, chanVars, m, stored, mutex, tasks,
                   console, clockVars>>

\* Line 299: totalTime = endTime.tv_sec - startTime.tv_sec.
TotalTime(start, end) == end.tv_sec - start.tv_sec

\* Lines 297-301 and 192-212: the end of the join loop, the second
\* timestamp, totalTime and write_result().
multiply_finish ==
    /\ mpc = "join"
    /\ n >= n_thread
    /\ endTime' = now
    /\ totalTime' = TotalTime(startTime, now)
    /\ out_file' = [exists |-> TRUE, data |-> m.data]
    /\ mpc' = "returned"
    /\ UNCHANGED <<pipeVars, n_thread, m1, m2, t, start_row, n, workerVars, childVars,
                   chanVars, m, stored, mutex, tasks, console, now, startTime>>

\* Line 337: main() prints the elapsed time, totalTime, and returns.
main_exit ==
    /\ mpc = "returned"
    /\ console' = ConsoleWrite(console, Line(MainThread, "elapsed", "Elapsed Time:"))
    /\ mpc' = "exit"
    /\ UNCHANGED <<pipeVars, n_thread, m1, m2, t, start_row, n, out_file, workerVars,
                   childVars, chanVars, m, stored, mutex, tasks, clockVars>>

(***************************************************************************)
(* MT_matrix: thread(), parent side                                        *)
(***************************************************************************)
\* The values a read of an int object can yield: its value, or any of
\* garbage when the object was never assigned.
ReadInt(v, garbage) == IF v = Uninit THEN garbage ELSE {v}

\* Mutant of CanLock: the lock is taken whether or not it is owned.
CanLockAlways(owner) == TRUE

\* Mutant of CanLock: the test of the owner is inverted.
CanLockInverted(owner) == owner # NoOwner

\* pthread_mutex_lock() returns only when no thread owns the mutex.
CanLock(owner) == owner = NoOwner

\* The loop indices after one iteration of the r, c loops of lines 132-133
\* and 150-151.
NextCell(r, c) == IF c + 1 < m2.col THEN <<r, c + 1>> ELSE <<r + 1, 0>>

\* Mutant of InLoop: the row loops stop one row early.
InLoopShort(r, end_row) == r + 1 < end_row /\ 0 < m2.col

\* Whether the r, c loops run an iteration at (r, 0) for a task ending at
\* end_row.
InLoop(r, end_row) == r < end_row /\ 0 < m2.col

\* Lines 150-155: the parent's loops from (r, c) on: each read() takes the
\* next message from the pipe, atoi() converts it and m[r][c] receives it.
RECURSIVE CollectFrom(_, _, _, _, _)
CollectFrom(data, r, c, end_row, msgs) ==
    IF InLoop(r, end_row)
    THEN CollectFrom([data EXCEPT ![r][c] = Atoi(Head(msgs))],
                     NextCell(r, c)[1], NextCell(r, c)[2], end_row, Tail(msgs))
    ELSE data

\* The number of iterations of the r, c loops of a task.
CellCount(task) ==
    IF InLoop(task.start_row, task.end_row)
    THEN (task.end_row - task.start_row) * m2.col
    ELSE 0

\* The values an uninitialised row index is taken to hold: the lowest and
\* the highest row count of the matrix.
GarbageRows == {0, m.row}

\* The locals of thread() once it has returned.
NoTask == [start_row |-> 0, end_row |-> 0]

\* Lines 110-126 and 146: the copy of the Task, pipe(), fork().  A read of
\* t[w].end_row before multiply() assigned it yields an arbitrary row count.
thread_start(w) ==
    /\ wpc[w] = "start"
    /\ \E e \in ReadInt(t[w].end_row, GarbageRows),
          outcome \in {"ok", "pipe_error", "fork_error"} :
          IF outcome = "ok"
          THEN /\ wt' = [wt EXCEPT ![w] =
                           [start_row |-> t[w].start_row, end_row |-> e]]
               /\ pid' = [pid EXCEPT ![w] = FirstChildPid + w]
               /\ tasks' = ((FirstChildPid + w) :> ChildStats) @@ tasks
               /\ cpc' = [cpc EXCEPT ![w] = "compute"]
               /\ wpc' = [wpc EXCEPT ![w] = "collect"]
               /\ UNCHANGED console
          ELSE /\ console' = ConsoleWrite(console, Line(w, "error",
                       IF outcome = "pipe_error"
                       THEN "Create pipe error." ELSE "Fork error."))
               /\ wpc' = [wpc EXCEPT ![w] = "done"]
               /\ UNCHANGED <<wt, pid, tasks, cpc>>
    /\ UNCHANGED <<pipeVars, mainVars, f_pos, ubuf, wret, rret, pipe, chanVars, m,
                   stored, mutex>>

\* Lines 150-162: the parent's loops, which read one message per cell of
\* the task from the pipe and store it into m, then open() on
\* /proc/thread_info, whose handle starts at offset 0; when open() fails
\* the thread returns at once.  read() blocks while the pipe is empty; the
\* child writes its messages in one step (child_compute), so the loops run
\* once all of them are in the pipe.
thread_collect_open(w) ==
    /\ wpc[w] = "collect"
    /\ cpc[w] # "compute"
    /\ Len(pipe[w]) >= CellCount(wt[w])
    /\ m' = [m EXCEPT !.data =
               CollectFrom(@, wt[w].start_row, 0, wt[w].end_row, pipe[w])]
    /\ stored' = [r \in DOMAIN stored |-> [c \in DOMAIN stored[r] |->
                    IF wt[w].start_row <= r /\ r < wt[w].end_row
                    THEN stored[r][c] \cup {w} ELSE stored[r][c]]]
    /\ pipe' = [pipe EXCEPT ![w] = SubSeq(@, CellCount(wt[w]) + 1, Len(@))]
    /\ \E ok \in BOOLEAN :
          IF ok
          THEN /\ f_pos' = [f_pos EXCEPT ![w] = 0]
               /\ wpc' = [wpc EXCEPT ![w] = "lock"]
               /\ UNCHANGED <<console, wt>>
          ELSE /\ console' = ConsoleWrite(console,
                      Line(w, "error", "Cannot open /proc/thread_info."))
               /\ wpc' = [wpc EXCEPT ![w] = "done"]
               /\ wt' = [wt EXCEPT ![w] = NoTask]
               /\ UNCHANGED f_pos
    /\ UNCHANGED <<pipeVars, mainVars, pid, ubuf, wret, rret, cpc, chanVars, mutex,
                   tasks>>

\* Lines 165-174: pthread_mutex_lock(); the zeroed buffer receives the
\* child's pid and a newline; write(fd, buffer, strlen(buffer)) runs
\* procfile_write.
thread_lock_write(w) ==
    /\ wpc[w] = "lock"
    /\ CanLock(mutex)
    /\ mutex' = w
    /\ \E request \in {IntToStr(pid[w]) \o <<LF>>} :
       \E res \in {procfile_write(procfs_buffer, procfs_buffer_size, f_pos[w],
                                  request, StrLen(request), FALSE, tasks)} :
           /\ ubuf' = [ubuf EXCEPT ![w] = request]
           /\ procfs_buffer' = res.buf
           /\ procfs_buffer_size' = res.size
           /\ f_pos' = [f_pos EXCEPT ![w] = res.off]
           /\ wret' = [wret EXCEPT ![w] = res.ret]
    /\ last_write' = w
    /\ wpc' = [wpc EXCEPT ![w] = "read"]
    /\ UNCHANGED <<pipeVars, mainVars, wt, pid, rret, childVars, m, stored, tasks,
                   console, chan_log>>

\* Mutant of Unlock: the mutex stays with the worker.
UnlockKept(w) == w

\* Line 180: pthread_mutex_unlock() by worker w leaves the mutex free.
Unlock(w) == NoOwner

\* Lines 177-180: read(fd, buffer, BUF_SIZE) runs procfile_read, then
\* printf("\t%s", buffer) and pthread_mutex_unlock().
thread_read_unlock(w) ==
    /\ wpc[w] = "read"
    /\ \E res \in {procfile_read(procfs_buffer, procfs_buffer_size, f_pos[w],
                                 ubuf[w], BUF_SIZE, FALSE)} :
           /\ ubuf' = [ubuf EXCEPT ![w] = res.ubuf]
           /\ f_pos' = [f_pos EXCEPT ![w] = res.off]
           /\ rret' = [rret EXCEPT ![w] = res.ret]
           /\ console' = ConsoleWrite(console,
                             Line(w, "telemetry", <<TAB>> \o CStr(res.ubuf)))
    /\ mutex' = Unlock(w)
    /\ wpc' = [wpc EXCEPT ![w] = "wait"]
    /\ UNCHANGED <<pipeVars, mainVars, wt, pid, wret, childVars, chanVars, m, stored,
                   tasks>>

\* Mutant of Reapable: wait() finds no terminated child.
ReapableNever == {}

\* The children a wait() can return: the terminated, not yet reaped
\* children of the process, whichever thread forked them.
Reapable == {c \in Workers : cpc[c] = "zombie"}

\* Lines 182-184: wait(NULL) reaps one terminated child of the process
\* and removes it from the task list; it fails at once (ECHILD) when the
\* process has no child left, and blocks while children run and none has
\* terminated.  Then the thread returns and its locals are gone.
thread_wait(w) ==
    /\ wpc[w] = "wait"
    /\ \/ \E c \in Reapable :
             /\ cpc' = [cpc EXCEPT ![c] = "reaped"]
             /\ tasks' = [p \in DOMAIN tasks \ {pid[c]} |-> tasks[p]]
       \/ /\ \A c \in Workers : cpc[c] \in {"none", "reaped"}
          /\ UNCHANGED <<cpc, tasks>>
    /\ wpc' = [wpc EXCEPT ![w] = "done"]
    /\ wt' = [wt EXCEPT ![w] = NoTask]
    /\ ubuf' = [ubuf EXCEPT ![w] = <<>>]
    /\ f_pos' = [f_pos EXCEPT ![w] = 0]
    /\ wret' = [wret EXCEPT ![w] = 0]
    /\ rret' = [rret EXCEPT ![w] = 0]
    /\ UNCHANGED <<pipeVars, mainVars, pid, pipe, chanVars, m, stored, mutex, console>>

(***************************************************************************)
(* MT_matrix: thread(), child side                                         *)
(***************************************************************************)
\* Lines 134-138: the inner loop, sum += m1[r][i] * m2[i][c] for i from
\* i0 up to m1.col - 1.
RECURSIVE DotFrom(_, _, _, _)
DotFrom(r, c, i, sum) ==
    IF i < m1.col
    THEN DotFrom(r, c, i + 1, sum + m1.data[r][i] * m2.data[i][c])
    ELSE sum

\* Lines 132-143: the child's loops from (r, c) on: each sum is printed
\* into the buffer with "%d" and written to the pipe as one message of
\* BUF_SIZE bytes, of which the text up to its NUL is kept here.
RECURSIVE ComputeFrom(_, _, _)
ComputeFrom(r, c, end_row) ==
    IF InLoop(r, end_row)
    THEN <<IntToStr(DotFrom(r, c, 0, 0))>>
             \o ComputeFrom(NextCell(r, c)[1], NextCell(r, c)[2], end_row)
    ELSE <<>>

\* Lines 128-143: the child runs its loops over the Task it inherited.
\* Its writes are taken as one step: only this worker's reads observe them.
child_compute(w) ==
    /\ cpc[w] = "compute"
    /\ pipe' = [pipe EXCEPT ![w] =
                  @ \o ComputeFrom(wt[w].start_row, 0, wt[w].end_row)]
    /\ cpc' = [cpc EXCEPT ![w] = "exit"]
    /\ UNCHANGED <<pipeVars, mainVars, workerVars, chanVars, m, stored, mutex,
                   tasks, console>>

\* Line 184 in the child: the only thread of the child returns from
\* thread(), which ends the child process; it stays in the task list as a
\* zombie until a wait() reaps it.
child_exit(w) ==
    /\ cpc[w] = "exit"
    /\ cpc' = [cpc EXCEPT ![w] = "zombie"]
    /\ UNCHANGED <<pipeVars, mainVars, workerVars, pipe, chanVars, m, stored,
                   mutex, tasks, console>>

Next ==
    \/ multiply_begin
    \/ multiply_create
    \/ multiply_assign
    \/ multiply_join
    \/ multiply_finish
    \/ main_exit
    \/ \E w \in Workers : thread_start(w)
    \/ \E w \in Workers : thread_collect_open(w)
    \/ \E w \in Workers : thread_lock_write(w)
    \/ \E w \in Workers : thread_read_unlock(w)
    \/ \E w \in Workers : thread_wait(w)
    \/ \E w \in Workers : child_compute(w)
    \/ \E w \in Workers : child_exit(w)

Spec == Init /\ [][Next]_vars

\* Fair scheduling, in its weakest form: the run does not stop while some
\* thread or child can take a step.  No step of the program can be taken
\* twice, so this is all that scheduling has to guarantee.
Fairness == WF_vars(Next)

SpecFair == Init /\ [][Next]_vars /\ Fairness

(***************************************************************************)
(* SpecPart: the task-creating loop of multiply() for row counts up to     *)
(* MaxPartRows and thread counts up to MaxPartThreads.  The created        *)
(* threads are not scheduled before the loop ends.                         *)
(***************************************************************************)
InitPart ==
    /\ n_thread \in 1..MaxPartThreads
    /\ \E r1 \in 0..MaxPartRows : m1 = InputMatrix(r1, 1, 1)
    /\ m2 = InputMatrix(1, 1, 5)
    /\ m = NullMatrix
    /\ t = <<>>
    /\ start_row = 0
    /\ n = 0
    /\ mpc = "multiply"
    /\ wpc = [w \in 0..(MaxPartThreads - 1) |-> "none"]
    /\ wt = [w \in Workers |-> NoTask]
    /\ pid = [w \in Workers |-> 0]
    /\ f_pos = [w \in Workers |-> 0]
    /\ ubuf = [w \in Workers |-> <<>>]
    /\ wret = [w \in Workers |-> 0]
    /\ rret = [w \in Workers |-> 0]
    /\ cpc = [w \in Workers |-> "none"]
    /\ pipe = [w \in Workers |-> <<>>]
    /\ mutex = NoOwner
    /\ procfs_buffer = <<>>
    /\ procfs_buffer_size = 0
    /\ tasks = <<>>
    /\ console = <<>>
    /\ out_file = [exists |-> FALSE, data |-> <<>>]
    /\ stored = <<>>
    /\ last_write = NoOwner
    /\ chan_log = <<>>
    /\ ClockInit
    /\ PipeInit

NextPart ==
    \/ multiply_begin
    \/ multiply_create
    \/ multiply_assign

SpecPart == InitPart /\ [][NextPart]_vars

(***************************************************************************)
(* SpecChan: /proc/thread_info under arbitrary callers.  Each handle is    *)
(* an open file with its own offset; a caller writes one of ChanTexts from *)
(* its buffer or reads into the same buffer, as thread() does.             *)
(***************************************************************************)
\* The task list the handler scans: two processes with different
\* accounting values.
ChanTable ==
    (FirstChildPid :> ChildStats)
        @@ ((FirstChildPid + 1) :> [utime |-> 999999, nvcsw |-> 0, nivcsw |-> 7])

\* The requests written: the two listed pids (with and without the
\* newline), a pid that is not listed, text that is no number, nothing.
ChanTexts ==
    { IntToStr(FirstChildPid) \o <<LF>>,
      IntToStr(FirstChildPid + 1),
      IntToStr(FirstChildPid + 2) \o <<LF>>,
      <<"x", LF>>,
      <<>> }

InitChan ==
    /\ n_thread = 0
    /\ m1 = InputMatrix(0, 1, 1)
    /\ m2 = InputMatrix(1, 1, 5)
    /\ m = NullMatrix
    /\ t = <<>>
    /\ start_row = 0
    /\ n = 0
    /\ mpc = "exit"
    /\ wpc = [w \in Workers |-> "none"]
    /\ wt = [w \in Workers |-> NoTask]
    /\ pid = [w \in Workers |-> 0]
    /\ f_pos = [w \in Workers |-> 0]
    /\ ubuf = [w \in Workers |-> <<>>]
    /\ wret = [w \in Workers |-> 0]
    /\ rret = [w \in Workers |-> 0]
    /\ cpc = [w \in Workers |-> "none"]
    /\ pipe = [w \in Workers |-> <<>>]
    /\ mutex = NoOwner
    /\ procfs_buffer = <<>>
    /\ procfs_buffer_size = 0
    /\ tasks = ChanTable
    /\ console = <<>>
    /\ out_file = [exists |-> FALSE, data |-> <<>>]
    /\ stored = <<>>
    /\ last_write = NoOwner
    /\ chan_log = <<>>
    /\ ClockInit
    /\ PipeInit

\* write(fd, text, Len(text)) on handle h, for a text of the set texts.
\* The kernel stores the offset back into the file only when the handler
\* did not fail.
chan_write_of(h, texts) ==
    /\ Len(chan_log) < MaxCalls
    /\ \E text \in texts, fault \in BOOLEAN :
       \E res \in {procfile_write(procfs_buffer, procfs_buffer_size, f_pos[h],
                                  text, Len(text), fault, tasks)} :
           /\ procfs_buffer' = res.buf
           /\ procfs_buffer_size' = res.size
           /\ f_pos' = [f_pos EXCEPT ![h] = res.off]
           /\ ubuf' = [ubuf EXCEPT ![h] = text]
           /\ wret' = [wret EXCEPT ![h] = res.ret]
           /\ chan_log' = Append(chan_log,
                  [h |-> h, op |-> "write", text |-> text, ret |-> res.ret,
                   fault |-> fault])
    /\ last_write' = h
    /\ UNCHANGED <<pipeVars, mainVars, wpc, wt, pid, rret, childVars, m, stored, mutex,
                   tasks, console>>

\* A write of one of the short requests.
chan_write(h) == chan_write_of(h, ChanTexts)

\* read(fd, buffer, BUF_SIZE) on handle h.
chan_read(h) ==
    /\ Len(chan_log) < MaxCalls
    /\ \E fault \in BOOLEAN :
       \E res \in {procfile_read(procfs_buffer, procfs_buffer_size, f_pos[h],
                                 ubuf[h], BUF_SIZE, fault)} :
           /\ ubuf' = [ubuf EXCEPT ![h] = res.ubuf]
           /\ f_pos' = [f_pos EXCEPT ![h] = res.off]
           /\ rret' = [rret EXCEPT ![h] = res.ret]
           /\ chan_log' = Append(chan_log,
                  [h |-> h, op |-> "read", text |-> Bytes(res.ubuf, res.ret),
                   ret |-> res.ret, fault |-> fault])
    /\ UNCHANGED <<pipeVars, mainVars, wpc, wt, pid, wret, childVars, m, stored, mutex,
                   tasks, console, procfs_buffer, procfs_buffer_size,
                   last_write>>

NextChan ==
    \/ \E h \in Workers : chan_write(h)
    \/ \E h \in Workers : chan_read(h)

SpecChan == InitChan /\ [][NextChan]_vars

(***************************************************************************)
(* SpecCap: the handlers under writes at and around the capacity of the   *)
(* buffer, made on one handle, and reads on any handle.                    *)
(***************************************************************************)
\* A text of len letters.
Fill(len) == [k \in 1..len |-> "a"]

\* The requests written: one byte less than the capacity, the capacity,
\* one byte more, and a listed pid.
LongTexts ==
    { Fill(PROCFS_MAX_SIZE - 1), Fill(PROCFS_MAX_SIZE),
      Fill(PROCFS_MAX_SIZE + 1), IntToStr(FirstChildPid) \o <<LF>> }

\* A write of one of the long requests.
chan_write_long(h) == chan_write_of(h, LongTexts)

NextCap ==
    \/ chan_write_long(0)
    \/ \E h \in Workers : chan_read(h)

SpecCap == InitChan /\ [][NextCap]_vars

(***************************************************************************)
(* Properties                                                              *)
(***************************************************************************)
\* The identifier a buffer's record carries: the value of the digits that
\* follow "ThreadID:", -1 when the buffer does not start with that text.
RecordId(arr) ==
    IF Len(arr) > Len(RecordHead)
       /\ SubSeq(arr, 1, Len(RecordHead)) = RecordHead
    THEN DigitsValue(arr, Len(RecordHead) + 1, 0)
    ELSE 0 - 1

\* The record the handler formats for worker w's child.
OwnRecord(w) ==
    FormatRecord(pid[w], ChildStats.utime, ChildStats.nvcsw, ChildStats.nivcsw)

\* Worker w's write found its child in the task list: it returned the
\* length of a record, not the length of the request.
HandlerMatched(w) == wret[w] # Len(IntToStr(pid[w])) + 1

\* The telemetry lines of the console, in the order printed.
TelemetryLines == SelectSeq(console, LAMBDA l : l.kind = "telemetry")

\* No worker met a failing pipe(), fork() or open().
NoWorkerError == \A i \in DOMAIN console : console[i].kind # "error"

\* C1: every worker whose write found its child in the task list reads,
\* in the same transaction, a record that carries the pid it wrote, never
\* a record produced for another worker's write.
C1_TransactionAtomicity ==
    \A w \in Workers :
        (wpc[w] = "wait" /\ HandlerMatched(w)) =>
            /\ rret[w] > 0
            /\ RecordId(ubuf[w]) = pid[w]

\* C1 witness: two workers have both completed a matching transaction.
C1_Witness ==
    \E a, b \in Workers :
        /\ a # b
        /\ wpc[a] = "wait" /\ HandlerMatched(a) /\ rret[a] > 0
        /\ wpc[b] = "wait" /\ HandlerMatched(b) /\ rret[b] > 0

\* C2: at most one worker is between pthread_mutex_lock and
\* pthread_mutex_unlock, it owns the mutex, and the latest write to the
\* proc file is its own: no other worker's write came between its write
\* and its read.
C2_MutualExclusion ==
    /\ Cardinality({w \in Workers : wpc[w] = "read"}) <= 1
    /\ \A w \in Workers : wpc[w] = "read" => (mutex = w /\ last_write = w)
    /\ \A w \in Workers : mutex = w => wpc[w] = "read"

\* C2 witness: one worker is inside its transaction while another waits
\* for the mutex.
C2_Witness ==
    \E a, b \in Workers : a # b /\ wpc[a] = "read" /\ wpc[b] = "lock"

\* The cell (r, c) of the product of m1 and m2: the sum of the first k
\* terms m1[r][i] * m2[i][c].
RECURSIVE SumOfTerms(_, _, _)
SumOfTerms(r, c, k) ==
    IF k = 0 THEN 0
    ELSE SumOfTerms(r, c, k - 1) + m1.data[r][k - 1] * m2.data[k - 1][c]

MatProd(r, c) == SumOfTerms(r, c, m1.col)

\* C3: once multiply() has joined all workers (it then writes the result),
\* with at least one worker and no failing system call, every cell of m is
\* the cell of the product of m1 and m2.
C3_ProductAfterJoin ==
    (out_file.exists /\ n_thread >= 1 /\ NoWorkerError) =>
        \A r \in 0..(m1.row - 1), c \in 0..(m2.col - 1) :
            m.data[r][c] = MatProd(r, c)

\* The number of rows of task i.
TaskRows(i) == t[i].end_row - t[i].start_row

\* C4: the task ranges multiply() assigns are contiguous in index order
\* from 0 to the row count, every row lies in exactly one of them, and
\* each of the first (rows mod n_thread) tasks has exactly one row more
\* than each of the others.
C4_PartitionLaw ==
    mpc = "join" =>
        LET idx == 0..(n_thread - 1)
            rem == m1.row % n_thread
        IN  /\ t[0].start_row = 0
            /\ t[n_thread - 1].end_row = m1.row
            /\ \A i \in idx : t[i].start_row <= t[i].end_row
            /\ \A i \in idx : i + 1 \in idx => t[i].end_row = t[i + 1].start_row
            /\ \A r \in 0..(m1.row - 1) :
                  Cardinality({i \in idx :
                      t[i].start_row <= r /\ r < t[i].end_row}) = 1
            /\ \A i, j \in idx :
                  /\ (i < rem /\ j >= rem) => TaskRows(i) = TaskRows(j) + 1
                  /\ (i < rem /\ j < rem) => TaskRows(i) = TaskRows(j)
                  /\ (i >= rem /\ j >= rem) => TaskRows(i) = TaskRows(j)

\* C4 witness: 10 rows over 3 workers were divided into 4, 3 and 3 rows.
C4_Witness ==
    /\ mpc = "join"
    /\ m1.row = 10
    /\ n_thread = 3
    /\ TaskRows(0) = 4 /\ TaskRows(1) = 3 /\ TaskRows(2) = 3

\* The first row of task i under the partition rule.
RuleStart(i) ==
    i * (m1.row \div n_thread) + Min(i, m1.row % n_thread)

\* C5: every result cell was stored by at most one worker, and only by the
\* worker whose range under the partition rule holds the cell's row.
C5_DisjointStores ==
    \A r \in DOMAIN stored : \A c \in DOMAIN stored[r] :
        /\ Cardinality(stored[r][c]) <= 1
        /\ \A w \in stored[r][c] : RuleStart(w) <= r /\ r < RuleStart(w + 1)

\* Calls i and i + 1 of the log are a write of a well-formed identifier
\* that is not in the task list, and then a read on the same handle.
MissThenRead(i) ==
    /\ i + 1 <= Len(chan_log)
    /\ chan_log[i].op = "write"
    /\ ~chan_log[i].fault
    /\ Kstrtoint(chan_log[i].text).ok
    /\ Kstrtoint(chan_log[i].text).val \notin DOMAIN tasks
    /\ chan_log[i + 1].op = "read"
    /\ chan_log[i + 1].h = chan_log[i].h
    /\ ~chan_log[i + 1].fault

C7_OwnRecordPrinted ==
    /\ \A w \in Workers :
          wpc[w] = "done" =>
              Cardinality({i \in DOMAIN console : console[i].who = w}) = 1
    /\ \A i \in DOMAIN console :
          console[i].kind = "telemetry" =>
              console[i].text = <<TAB>> \o OwnRecord(console[i].who)

\* C8 as claimed: the telemetry lines are on the console in task index
\* order.
C8_TaskIndexOrder ==
    \A i, j \in DOMAIN TelemetryLines :
        i < j => TelemetryLines[i].who < TelemetryLines[j].who

\* C8 as amended: the telemetry lines are on the console in the order of
\* the workers' transactions: the worker of the latest write either is
\* still inside its transaction and has no line yet, or its line is the
\* last telemetry line.
C8_TransactionOrder ==
    last_write # NoOwner =>
        IF wpc[last_write] = "read"
        THEN \A i \in DOMAIN TelemetryLines :
                 TelemetryLines[i].who # last_write
        ELSE /\ TelemetryLines # <<>>
             /\ TelemetryLines[Len(TelemetryLines)].who = last_write

\* C8 witness: a worker's line is on the console before the line of a
\* worker of lower index.
C8_Witness ==
    \E i, j \in DOMAIN TelemetryLines :
        i < j /\ TelemetryLines[i].who > TelemetryLines[j].who

\* C9: a worker that has returned from thread() after creating a child
\* left it neither running nor unreaped.
C9_ChildReapedBeforeReturn ==
    \A w \in Workers :
        (wpc[w] = "done" /\ pid[w] # 0) => cpc[w] = "reaped"

\* C10: with m1.col # m2.row no worker thread and no child is ever
\* created, the proc file is never written, no result matrix is allocated
\* and result.txt is not produced.
C10_MismatchAborts ==
    m1.col # m2.row =>
        /\ \A w \in Workers : wpc[w] = "none" /\ cpc[w] = "none"
        /\ tasks = <<>>
        /\ last_write = NoOwner
        /\ procfs_buffer_size = 0
        /\ m = NullMatrix
        /\ ~out_file.exists

\* C10 witness: multiply() has returned on a dimension mismatch and main()
\* has printed the elapsed time.
C10_Witness == m1.col # m2.row /\ mpc = "exit"

\* An error line of the main thread is on the console.
MainErrorReported ==
    \E i \in DOMAIN console :
        console[i].who = MainThread /\ console[i].kind = "error"

\* C11: with a requested worker count below 1 the run reports an error and
\* aborts before any computation: no worker is created, no result matrix
\* is written, and multiply() has returned only after an error line.
C11_BadCountAborts ==
    n_thread < 1 =>
        /\ \A w \in Workers : wpc[w] = "none"
        /\ ~out_file.exists
        /\ mpc \in {"returned", "exit"} => MainErrorReported

\* Worker w has a telemetry line on the console.
HasLine(w) ==
    \E i \in DOMAIN console :
        console[i].kind = "telemetry" /\ console[i].who = w

\* C12: within a worker, once it has written its telemetry query every
\* cell of the range it holds (the Task it copied and loops over) has been
\* computed by its child and stored by the worker, and nothing is left in
\* its pipe; before the query it was never the writer of the proc file;
\* and its line is printed only once its read has completed.
C12_WorkerOrder ==
    \A w \in Workers :
        /\ wpc[w] \in {"read", "wait"} =>
              /\ cpc[w] # "compute"
              /\ pipe[w] = <<>>
              /\ \A r \in wt[w].start_row..(wt[w].end_row - 1) :
                    \A c \in 0..(m2.col - 1) :
                        w \in stored[r][c] /\ m.data[r][c] = MatProd(r, c)
        /\ wpc[w] \in {"none", "start", "collect", "lock"} =>
              (last_write # w /\ wret[w] = 0 /\ ~HasLine(w))
        /\ wpc[w] = "read" => ~HasLine(w)
        /\ HasLine(w) => wpc[w] \in {"wait", "done"}

\* C12 witness: a worker with a range that is not empty has stored it,
\* queried, read and printed its line.
C12_Witness ==
    \E w \in Workers :
        /\ wpc[w] = "wait"
        /\ wt[w].start_row < wt[w].end_row
        /\ HasLine(w)
        /\ rret[w] > 0

\* C13: under fair scheduling every worker that waits for the telemetry
\* lock eventually has taken it, completed its write and read, and
\* released it.
C13_LockProgress ==
    \A w \in Workers :
        (wpc[w] = "lock") ~> (wpc[w] \in {"wait", "done"} /\ mutex # w)

\* C13 witness: two workers both went through the lock, and it is free.
C13_Witness ==
    \E a, b \in Workers :
        a # b /\ HasLine(a) /\ HasLine(b) /\ mutex = NoOwner

\* C14: write_result() has run only with every created worker returned,
\* and then, for n_thread >= 1 and no failing worker, every cell of the
\* result matrix has been stored by some worker.
C14_JoinBeforeWrite ==
    out_file.exists =>
        /\ \A w \in Workers : wpc[w] \in {"none", "done"}
        /\ (n_thread >= 1 /\ NoWorkerError) =>
              \A r \in DOMAIN stored : \A c \in DOMAIN stored[r] :
                  stored[r][c] # {}

\* The latest call on /proc/thread_info.
LastCall == chan_log[Len(chan_log)]

\* The latest call is a write, without fault, of a text that parses as a
\* decimal identifier.
ParsedWrite ==
    /\ chan_log # <<>>
    /\ LastCall.op = "write"
    /\ ~LastCall.fault
    /\ Kstrtoint(LastCall.text).ok

\* The latest call is a write of the pid of a task of the table.
MatchWrite == ParsedWrite /\ Kstrtoint(LastCall.text).val \in DOMAIN tasks

\* The record line of the task with pid id: the identifier, the user time
\* in milliseconds and the sum of both context switch counts.
RecordOf(id) ==
    RecordHead \o IntToStr(id) \o RecordTime
        \o IntToStr(tasks[id].utime \div 1000000)
        \o RecordSwitch \o IntToStr(tasks[id].nvcsw + tasks[id].nivcsw)
        \o <<LF>>

\* C15: after a write of the pid of a listed task the buffer holds the
\* record line of that task, and both procfs_buffer_size and the value
\* returned are the length of that line, not the length of the request.
C15_MatchRecord ==
    MatchWrite =>
        LET rec == RecordOf(Kstrtoint(LastCall.text).val)
        IN  /\ CStr(procfs_buffer) = rec
            /\ procfs_buffer_size = Len(rec)
            /\ LastCall.ret = Len(rec)
            /\ procfs_buffer_size # Len(LastCall.text)

\* C15 witness: the pid of a listed task was written, without the newline,
\* after an earlier call.
C15_Witness ==
    /\ MatchWrite
    /\ Len(chan_log) > 1
    /\ LastCall.text = IntToStr(FirstChildPid + 1)

\* C16: after a write, without fault, of a text that does not parse as a
\* decimal identifier the buffer holds the text written and the value
\* returned is the number of bytes accepted, min(len, PROCFS_MAX_SIZE).
C16_MalformedAccepted ==
    (/\ chan_log # <<>>
     /\ LastCall.op = "write"
     /\ ~LastCall.fault
     /\ ~Kstrtoint(LastCall.text).ok) =>
        /\ procfs_buffer_size = Min(Len(LastCall.text), PROCFS_MAX_SIZE)
        /\ Bytes(procfs_buffer, procfs_buffer_size)
              = Bytes(LastCall.text, procfs_buffer_size)
        /\ LastCall.ret = Min(Len(LastCall.text), PROCFS_MAX_SIZE)

\* C17: procfs_buffer_size stays within 0..PROCFS_MAX_SIZE; the handler
\* never stores at an index of the buffer past PROCFS_MAX_SIZE - 1; a
\* write of more than PROCFS_MAX_SIZE bytes is cut down to PROCFS_MAX_SIZE
\* and not rejected; no read hands out more than PROCFS_MAX_SIZE bytes.
C17_CapacityBound ==
    /\ procfs_buffer_size \in 0..PROCFS_MAX_SIZE
    /\ Len(procfs_buffer) <= PROCFS_MAX_SIZE
    /\ \A i \in DOMAIN chan_log :
          /\ chan_log[i].op = "read" =>
                (chan_log[i].ret \in 0..PROCFS_MAX_SIZE
                 /\ Len(chan_log[i].text) <= PROCFS_MAX_SIZE)
          /\ (chan_log[i].op = "write" /\ ~chan_log[i].fault) =>
                chan_log[i].ret \in 0..PROCFS_MAX_SIZE
    /\ (/\ chan_log # <<>>
        /\ LastCall.op = "write"
        /\ ~LastCall.fault
        /\ Len(LastCall.text) > PROCFS_MAX_SIZE) =>
            /\ procfs_buffer_size = PROCFS_MAX_SIZE
            /\ \A k \in 2..PROCFS_MAX_SIZE :
                  procfs_buffer[k] = LastCall.text[k]

\* C17 witness: a text longer than the buffer was written and then read
\* back in full.
C17_Witness ==
    /\ Len(chan_log) >= 2
    /\ LastCall.op = "read"
    /\ LastCall.ret = PROCFS_MAX_SIZE
    /\ chan_log[Len(chan_log) - 1].op = "write"
    /\ ~chan_log[Len(chan_log) - 1].fault
    /\ Len(chan_log[Len(chan_log) - 1].text) > PROCFS_MAX_SIZE


\* pipe() or fork() failed for worker w: its error line is on the console.
IsolationFailed(w) ==
    \E i \in DOMAIN console :
        /\ console[i].who = w
        /\ console[i].kind = "error"
        /\ console[i].text \in {"Create pipe error.", "Fork error."}

\* Worker w met no failing call of its own.
NoErrorOf(w) ==
    \A i \in DOMAIN console :
        console[i].who = w => console[i].kind # "error"

\* C18: a worker whose pipe() or fork() failed has returned with no child,
\* no store into the result matrix and no use of the proc file; once the
\* join has returned and the result is written, every other worker that
\* met no failure of its own has stored its cells and printed its line;
\* and no cell of the failed worker's range under the partition rule was
\* stored by anyone.
C18_IsolationFailureLocal ==
    \A w \in Workers :
        IsolationFailed(w) =>
            /\ wpc[w] = "done"
            /\ pid[w] = 0
            /\ ~HasLine(w)
            /\ last_write # w
            /\ \A r \in DOMAIN stored : \A c \in DOMAIN stored[r] :
                  w \notin stored[r][c]
            /\ out_file.exists =>
                  \A v \in Workers :
                      (v # w /\ v < n_thread /\ NoErrorOf(v)) =>
                          wpc[v] = "done" /\ HasLine(v)
            /\ \A r \in DOMAIN stored : \A c \in DOMAIN stored[r] :
                  (RuleStart(w) <= r /\ r < RuleStart(w + 1)) =>
                      stored[r][c] = {}


(***************************************************************************)
(* SpecTime: the program with one worker under a clock that advances.  In  *)
(* Spec the clock stands still; here CLOCK_MONOTONIC moves between any two *)
(* steps, so the two clock_gettime() calls of multiply() see every pair of *)
(* Timestamps with the second not before the first.                        *)
(***************************************************************************)
InitTime ==
    /\ n_thread = 1
    /\ m1 = InputMatrix(1, MaxInner, 1)
    /\ m2 = InputMatrix(MaxInner, 1, 5)
    /\ m = NullMatrix
    /\ t = <<>>
    /\ start_row = 0
    /\ n = 0
    /\ mpc = "multiply"
    /\ wpc = [w \in Workers |-> "none"]
    /\ wt = [w \in Workers |-> NoTask]
    /\ pid = [w \in Workers |-> 0]
    /\ f_pos = [w \in Workers |-> 0]
    /\ ubuf = [w \in Workers |-> <<>>]
    /\ wret = [w \in Workers |-> 0]
    /\ rret = [w \in Workers |-> 0]
    /\ cpc = [w \in Workers |-> "none"]
    /\ pipe = [w \in Workers |-> <<>>]
    /\ mutex = NoOwner
    /\ procfs_buffer = <<>>
    /\ procfs_buffer_size = 0
    /\ tasks = <<>>
    /\ console = <<>>
    /\ out_file = [exists |-> FALSE, data |-> <<>>]
    /\ stored = <<>>
    /\ last_write = NoOwner
    /\ chan_log = <<>>
    /\ startTime = Timespec(0, 0)
    /\ endTime = Timespec(0, 0)
    /\ totalTime = 0
    /\ now \in Timestamps
    /\ PipeInit

\* CLOCK_MONOTONIC advances to a later reading.
tick ==
    /\ \E ts \in Timestamps :
          /\ NotLater(now, ts)
          /\ ts # now
          /\ now' = ts
    /\ UNCHANGED <<pipeVars, n_thread, m1, m2, t, start_row, n, mpc, out_file,
                   startTime, endTime, totalTime, workerVars, childVars,
                   chanVars, m, stored, mutex, tasks, console>>

NextTime ==
    \/ tick
    \/ Next

SpecTime == InitTime /\ [][NextTime]_vars

\* The whole seconds between two timestamps: the floor of
\* (end.tv_sec + end.tv_nsec / 10^9) - (start.tv_sec + start.tv_nsec / 10^9),
\* both tv_nsec fields lying in 0..(10^9 - 1).
FloorSeconds(start, end) ==
    (end.tv_sec - start.tv_sec)
        - (IF end.tv_nsec < start.tv_nsec THEN 1 ELSE 0)

\* C19: once multiply() has taken both timestamps, the elapsed time main()
\* prints is the interval from startTime to endTime rounded down to whole
\* seconds.
C19_ElapsedFloor ==
    (out_file.exists /\ NotLater(startTime, endTime)) =>
        totalTime = FloorSeconds(startTime, endTime)


\* Task index i is one of the tasks past the last row.
PastRows(i) == i >= m1.row /\ i < n_thread

\* C20: with more workers than rows, every task whose index is not below
\* the row count is assigned the empty range at the row count; its worker
\* and child put no message into their pipe and the worker stores no cell;
\* that worker has returned when the result is written; and the matrix
\* written is the product, as a single worker computes it.
C20_MoreWorkersThanRows ==
    n_thread > m1.row =>
        /\ mpc = "join" =>
              \A i \in 0..(n_thread - 1) :
                  PastRows(i) =>
                      t[i] = [start_row |-> m1.row, end_row |-> m1.row]
        /\ \A w \in Workers :
              PastRows(w) =>
                  /\ pipe[w] = <<>>
                  /\ \A r \in DOMAIN stored : \A c \in DOMAIN stored[r] :
                        w \notin stored[r][c]
        /\ (out_file.exists /\ NoWorkerError) =>
              /\ \A w \in Workers : PastRows(w) => wpc[w] = "done"
              /\ out_file.data = [r \in 0..(m1.row - 1) |->
                                    [c \in 0..(m2.col - 1) |-> MatProd(r, c)]]


\* Call i of the log is a write, without fault, of the pid of a listed task.
MatchWriteAt(i) ==
    /\ chan_log[i].op = "write"
    /\ ~chan_log[i].fault
    /\ Kstrtoint(chan_log[i].text).ok
    /\ Kstrtoint(chan_log[i].text).val \in DOMAIN tasks

\* The bytes sub occur in the bytes text, one after the other.
Contains(text, sub) ==
    \E k \in 0..(Len(text) - Len(sub)) :
        SubSeq(text, k + 1, k + Len(sub)) = sub

\* C21: a read of the proc file that returns data outputs the record of
\* every listed task whose pid was written before it, not only the record
\* of the pid written last.
C21_AllRecordedOutput ==
    \A i \in DOMAIN chan_log :
        (chan_log[i].op = "read" /\ chan_log[i].ret > 0) =>
            \A j \in 1..(i - 1) :
                MatchWriteAt(j) =>
                    Contains(chan_log[i].text,
                             RecordOf(Kstrtoint(chan_log[j].text).val))


\* The step is a call of procfile_read: it adds a read to the log.
ReadStep ==
    /\ Len(chan_log') = Len(chan_log) + 1
    /\ chan_log'[Len(chan_log')].op = "read"

\* What C22 says of a read that returns data, and of every read: the bytes
\* are procfs_buffer_size bytes from the start of the buffer, the handle's
\* offset advances by procfs_buffer_size, and the buffer and the size
\* field are left alone.
ReadEffect ==
    LET call == chan_log'[Len(chan_log')]
    IN  /\ call.ret # 0 =>
              /\ call.ret = procfs_buffer_size
              /\ call.text = Bytes(procfs_buffer, procfs_buffer_size)
              /\ f_pos'[call.h] = f_pos[call.h] + procfs_buffer_size
        /\ procfs_buffer' = procfs_buffer
        /\ procfs_buffer_size' = procfs_buffer_size

\* C22 as claimed: a read returns zero bytes exactly when the handle's
\* offset is at or past procfs_buffer_size; otherwise it returns
\* procfs_buffer_size bytes from the start of the buffer and advances the
\* offset by as much; it changes neither the buffer nor the size.
C22_ReadZeroOnlyAtEnd ==
    [][ReadStep =>
          LET call == chan_log'[Len(chan_log')]
          IN  /\ call.ret = 0 <=> f_pos[call.h] >= procfs_buffer_size
              /\ ReadEffect]_vars

\* C22 as amended: a read returns zero bytes exactly when the handle's
\* offset is at or past procfs_buffer_size or the copy to the caller
\* fails; otherwise it returns procfs_buffer_size bytes from the start of
\* the buffer and advances the offset by as much; it changes neither the
\* buffer nor the size.
C22_ReadSemantics ==
    [][ReadStep =>
          LET call == chan_log'[Len(chan_log')]
          IN  /\ call.ret = 0 <=>
                    (f_pos[call.h] >= procfs_buffer_size \/ call.fault)
              /\ call.ret = 0 => f_pos'[call.h] = f_pos[call.h]
              /\ ReadEffect]_vars

\* C22 witness: on one handle a read returned data and the next read, its
\* copy not failing, returned zero bytes.
C22_Witness ==
    \E i \in DOMAIN chan_log :
        /\ i + 1 \in DOMAIN chan_log
        /\ chan_log[i].op = "read" /\ chan_log[i].ret > 0
        /\ chan_log[i + 1].op = "read" /\ chan_log[i + 1].ret = 0
        /\ ~chan_log[i + 1].fault
        /\ chan_log[i + 1].h = chan_log[i].h


\* The latest call is a write of a well-formed identifier that no task of
\* the table carries.
MissWrite == ParsedWrite /\ Kstrtoint(LastCall.text).val \notin DOMAIN tasks

\* C23: after a write whose text parses as an identifier that matches no
\* task, the buffer holds the accepted request text, terminated, and
\* nothing else was put there; procfs_buffer_size is the accepted length
\* of the request, and that length is the value returned.
C23_MissFrame ==
    MissWrite =>
        /\ procfs_buffer_size = Min(Len(LastCall.text), PROCFS_MAX_SIZE)
        /\ Bytes(procfs_buffer, procfs_buffer_size)
              = Bytes(LastCall.text, procfs_buffer_size)
        /\ StrLen(procfs_buffer) = procfs_buffer_size
        /\ LastCall.ret = procfs_buffer_size

\* C23 witness: an unlisted identifier was written right after the write
\* of a listed one had left a record in the buffer.
C23_Witness ==
    /\ MissWrite
    /\ Len(chan_log) >= 2
    /\ MatchWriteAt(Len(chan_log) - 1)


(***************************************************************************)
(* SpecPipe: the pipe of each worker, byte by byte.  Spec takes a child's  *)
(* writes as one step and a parent's reads as one step on whole messages;  *)
(* here every write() of the child and every read() of the parent is a     *)
(* step of its own on a stream of bytes, from the state in which every     *)
(* worker has copied its Task and forked its child.                        *)
(***************************************************************************)
\* What the uninitialised buffer of line 120 can hold when thread()
\* starts: nothing but NUL bytes, or no NUL byte at all.
StackGarbage == { <<>>, [k \in 1..BUF_SIZE |-> "7"] }

\* sprintf(buffer, "%d", sum): the text and its terminator, the rest of
\* the buffer staying as it was.
Sprintf(buffer, text) == StoreByte(CopyInto(buffer, text), Len(text), NUL)

\* Mutant of WriteLen: the child writes its text and the terminator only.
WriteLenText(buffer) == StrLen(buffer) + 1

\* Line 141: write(fd[1], buffer, BUF_SIZE) writes the whole buffer.
WriteLen(buffer) == BUF_SIZE

\* The Task of index i once multiply() has assigned all of them.
AssignedTask(i) ==
    [start_row |-> RuleStart(i), end_row |-> RuleStart(i + 1)]

InitPipe ==
    /\ n_thread \in 1..MaxThreads
    /\ \E r1 \in 0..MaxRows, c2 \in 1..MaxCols :
          /\ m1 = InputMatrix(r1, MaxInner, 1)
          /\ m2 = InputMatrix(MaxInner, c2, 5)
          /\ m = [row |-> r1, col |-> c2,
                  data |-> [r \in 0..(r1 - 1) |-> [c \in 0..(c2 - 1) |-> Uninit]]]
          /\ stored = [r \in 0..(r1 - 1) |-> [c \in 0..(c2 - 1) |-> {}]]
    /\ t = [i \in 0..(n_thread - 1) |-> AssignedTask(i)]
    /\ start_row = m1.row
    /\ n = 0
    /\ mpc = "join"
    /\ wpc = [w \in Workers |-> IF w < n_thread THEN "collect" ELSE "none"]
    /\ wt = [w \in Workers |-> IF w < n_thread THEN AssignedTask(w) ELSE NoTask]
    /\ pid = [w \in Workers |-> IF w < n_thread THEN FirstChildPid + w ELSE 0]
    /\ f_pos = [w \in Workers |-> 0]
    /\ ubuf = [w \in Workers |-> <<>>]
    /\ wret = [w \in Workers |-> 0]
    /\ rret = [w \in Workers |-> 0]
    /\ cpc = [w \in Workers |-> IF w < n_thread THEN "compute" ELSE "none"]
    /\ pipe = [w \in Workers |-> <<>>]
    /\ mutex = NoOwner
    /\ procfs_buffer = <<>>
    /\ procfs_buffer_size = 0
    /\ tasks = [p \in {FirstChildPid + w : w \in 0..(n_thread - 1)} |->
                  ChildStats]
    /\ console = <<Line(MainThread, "pid", "PID:")>>
    /\ out_file = [exists |-> FALSE, data |-> <<>>]
    /\ last_write = NoOwner
    /\ chan_log = <<>>
    /\ ClockInit
    /\ fifo = [w \in Workers |-> <<>>]
    /\ \E garbage \in StackGarbage :
          /\ cbuf = [w \in Workers |-> garbage]
          /\ pbuf = [w \in Workers |-> garbage]
    /\ cpos = [w \in Workers |-> [r |-> wt[w].start_row, c |-> 0]]
    /\ ppos = [w \in Workers |-> [r |-> wt[w].start_row, c |-> 0]]
    /\ sent = [w \in Workers |-> <<>>]
    /\ recvd = [w \in Workers |-> <<>>]

\* Lines 132-142: one iteration of the child's loops: the sum of the cell,
\* sprintf() and the write() of the buffer to its end of the pipe.  The
\* bounded runs never fill a pipe, so the write never blocks.
child_send(w) ==
    /\ cpc[w] = "compute"
    /\ InLoop(cpos[w].r, wt[w].end_row)
    /\ \E sum \in {DotFrom(cpos[w].r, cpos[w].c, 0, 0)} :
       \E buffer \in {Sprintf(cbuf[w], IntToStr(sum))} :
          /\ cbuf' = [cbuf EXCEPT ![w] = buffer]
          /\ fifo' = [fifo EXCEPT ![w] = @ \o Bytes(buffer, WriteLen(buffer))]
          /\ sent' = [sent EXCEPT ![w] =
                        Append(@, [r |-> cpos[w].r, c |-> cpos[w].c,
                                   val |-> sum])]
    /\ cpos' = [cpos EXCEPT ![w] =
                  [r |-> NextCell(@.r, @.c)[1], c |-> NextCell(@.r, @.c)[2]]]
    /\ UNCHANGED <<mainVars, workerVars, childVars, chanVars, pbuf, ppos,
                   recvd, m, stored, mutex, tasks, console>>

\* Lines 150-154: one iteration of the parent's loops: read(fd[0], buffer,
\* BUF_SIZE) blocks while the pipe is empty and then takes what is there,
\* BUF_SIZE bytes at most; atoi() of the buffer goes to m[r][c].
parent_recv(w) ==
    /\ wpc[w] = "collect"
    /\ InLoop(ppos[w].r, wt[w].end_row)
    /\ fifo[w] # <<>>
    /\ \E count \in {Min(Len(fifo[w]), BUF_SIZE)} :
       \E buffer \in {CopyInto(pbuf[w], SubSeq(fifo[w], 1, count))} :
          /\ pbuf' = [pbuf EXCEPT ![w] = buffer]
          /\ fifo' = [fifo EXCEPT ![w] = SubSeq(@, count + 1, Len(@))]
          /\ m' = [m EXCEPT !.data[ppos[w].r][ppos[w].c] = Atoi(buffer)]
          /\ recvd' = [recvd EXCEPT ![w] =
                         Append(@, [r |-> ppos[w].r, c |-> ppos[w].c,
                                    val |-> Atoi(buffer)])]
    /\ stored' = [stored EXCEPT ![ppos[w].r][ppos[w].c] = @ \cup {w}]
    /\ ppos' = [ppos EXCEPT ![w] =
                  [r |-> NextCell(@.r, @.c)[1], c |-> NextCell(@.r, @.c)[2]]]
    /\ UNCHANGED <<mainVars, workerVars, childVars, chanVars, cbuf, cpos,
                   sent, mutex, tasks, console>>

NextPipe ==
    \/ \E w \in Workers : child_send(w)
    \/ \E w \in Workers : parent_recv(w)

SpecPipe == InitPipe /\ [][NextPipe]_vars

\* The cell the k-th iteration (from 1) of the r, c loops of a task is at.
CellAt(task, k) ==
    [r |-> task.start_row + (k - 1) \div m2.col, c |-> (k - 1) % m2.col]

\* Both loops of worker w, the child's and the parent's, have ended.
LoopsEnded(w) ==
    /\ ~InLoop(cpos[w].r, wt[w].end_row)
    /\ ~InLoop(ppos[w].r, wt[w].end_row)

\* C24: for every worker's task of R rows and width W, the child's writes
\* are the sums of the task's cells in row-major order, R*W of them when
\* its loops have ended; the parent's reads are the same values at the
\* same cells in the same order, so the k-th read took the k-th write, and
\* each is stored in m at its cell; the pipe holds exactly one message of
\* BUF_SIZE bytes for each write not yet read; and when both loops have
\* ended the parent has made R*W reads and the pipe is empty.
C24_PipeProtocol ==
    \A w \in Workers :
        /\ \A k \in DOMAIN sent[w] :
              /\ sent[w][k].r = CellAt(wt[w], k).r
              /\ sent[w][k].c = CellAt(wt[w], k).c
              /\ sent[w][k].val = MatProd(sent[w][k].r, sent[w][k].c)
        /\ Len(recvd[w]) <= Len(sent[w])
        /\ \A k \in DOMAIN recvd[w] :
              /\ recvd[w][k] = sent[w][k]
              /\ m.data[recvd[w][k].r][recvd[w][k].c] = recvd[w][k].val
        /\ Len(fifo[w]) = BUF_SIZE * (Len(sent[w]) - Len(recvd[w]))
        /\ LoopsEnded(w) =>
              /\ Len(sent[w]) = CellCount(wt[w])
              /\ Len(recvd[w]) = CellCount(wt[w])
              /\ fifo[w] = <<>>

\* C24 witness: two workers have each read, over their own pipes, every
\* message of a task of more than one cell, from buffers that held no NUL
\* byte at the start.
C24_Witness ==
    \E a, b \in Workers :
        /\ a # b
        /\ LoopsEnded(a) /\ Len(recvd[a]) > 1
        /\ LoopsEnded(b) /\ Len(recvd[b]) > 1
        /\ Len(cbuf[a]) = BUF_SIZE


\* Worker w holds the copy of its Task it made at the start of thread().
HoldsTask(w) == wpc[w] \in {"collect", "lock", "read", "wait"}

\* C25: the Task a worker copied at the start of thread() has both fields
\* as the partition rule assigns them to the worker's index: the worker
\* did not read a field before multiply() had assigned it.
C25_TaskAssignedBeforeRead ==
    \A w \in Workers :
        HoldsTask(w) =>
            /\ wt[w].start_row = RuleStart(w)
            /\ wt[w].end_row = RuleStart(w + 1)


\* The latest call is a write, without fault, whose text is no decimal
\* identifier: the handler returns right after the copy and the terminator.
PlainWrite ==
    /\ chan_log # <<>>
    /\ LastCall.op = "write"
    /\ ~LastCall.fault
    /\ ~Kstrtoint(LastCall.text).ok

\* C26: after the copy and the terminator of a write of any length, the
\* buffer still holds the first min(len, PROCFS_MAX_SIZE) bytes of the
\* request as they were written: the terminator is on none of them.
C26_AcceptedBytesIntact ==
    PlainWrite =>
        \A k \in 1..Min(Len(LastCall.text), PROCFS_MAX_SIZE) :
            ByteAt(procfs_buffer, k - 1) = LastCall.text[k]


\* C27: no read hands the caller more bytes than the caller asked for:
\* every read() on /proc/thread_info is made with buffer_length BUF_SIZE,
\* and neither the count it returns nor the number of bytes copied into
\* the caller's buffer is larger.
C27_ReadWithinRequest ==
    \A i \in DOMAIN chan_log :
        chan_log[i].op = "read" =>
            /\ chan_log[i].ret <= BUF_SIZE
            /\ Len(chan_log[i].text) <= BUF_SIZE


\* Worker w printed an error line: it left thread() through one of the
\* error returns.
FailedWorker(w) ==
    \E i \in DOMAIN console : console[i].who = w /\ console[i].kind = "error"

\* C28: a worker that has left its transaction or has returned from
\* thread(), normally or through an error return, does not own the mutex;
\* a worker that took an error return never owned it; and once every
\* worker has returned the mutex is free.
C28_LockReleased ==
    /\ \A w \in Workers :
          /\ wpc[w] \in {"wait", "done"} => mutex # w
          /\ FailedWorker(w) => (mutex # w /\ last_write # w)
    /\ (\A w \in Workers : wpc[w] \in {"none", "done"}) => mutex = NoOwner

\* C28 witness: a worker returned because open() failed, and after that
\* another worker went through its whole transaction and returned.
C28_Witness ==
    \E a, b \in Workers : \E i, j \in DOMAIN console :
        /\ a # b /\ i < j
        /\ console[i].who = a
        /\ console[i].text = "Cannot open /proc/thread_info."
        /\ console[j].who = b /\ console[j].kind = "telemetry"
        /\ wpc[a] = "done" /\ wpc[b] = "done"


\* The join loop of multiply() has returned.
JoinReturned ==
    \/ mpc = "join" /\ n >= n_thread
    \/ mpc \in {"returned", "exit"} /\ out_file.exists

\* C29: once the join of all workers has returned, every child a worker
\* forked has terminated and has been reaped, whichever path its worker
\* took through thread().
C29_NoChildLeftAfterJoin ==
    JoinReturned =>
        \A w \in Workers : pid[w] # 0 => cpc[w] = "reaped"


(***************************************************************************)
(* SpecRepeat: one open handle of /proc/thread_info on which a caller      *)
(* makes up to MaxPairs transactions, each a write and then a read, none   *)
(* of its copies failing.                                                  *)
(***************************************************************************)
\* The decimal text of id with zeros before it, len bytes long.
ZeroPadded(id, len) ==
    [k \in 1..(len - Len(IntToStr(id))) |-> "0"] \o IntToStr(id)

\* The requests written: the two listed pids, with and without the
\* newline, a listed pid in a text longer than its record, and a pid that
\* is not listed.
RepeatTexts ==
    { IntToStr(FirstChildPid) \o <<LF>>,
      IntToStr(FirstChildPid + 1),
      ZeroPadded(FirstChildPid, Len(RecordOf(FirstChildPid)) + 1),
      IntToStr(FirstChildPid + 2) \o <<LF>> }

\* write(fd, text, Len(text)) on handle h, which begins a transaction.
repeat_write(h) ==
    /\ Len(chan_log) < 2 * MaxPairs
    /\ Len(chan_log) % 2 = 0
    /\ \E text \in RepeatTexts :
       \E res \in {procfile_write(procfs_buffer, procfs_buffer_size, f_pos[h],
                                  text, Len(text), FALSE, tasks)} :
           /\ procfs_buffer' = res.buf
           /\ procfs_buffer_size' = res.size
           /\ f_pos' = [f_pos EXCEPT ![h] = res.off]
           /\ ubuf' = [ubuf EXCEPT ![h] = text]
           /\ wret' = [wret EXCEPT ![h] = res.ret]
           /\ chan_log' = Append(chan_log,
                  [h |-> h, op |-> "write", text |-> text, ret |-> res.ret,
                   fault |-> FALSE])
    /\ last_write' = h
    /\ UNCHANGED <<pipeVars, mainVars, wpc, wt, pid, rret, childVars, m,
                   stored, mutex, tasks, console>>

\* read(fd, buffer, BUF_SIZE) on handle h, which ends the transaction.
repeat_read(h) ==
    /\ Len(chan_log) < 2 * MaxPairs
    /\ Len(chan_log) % 2 = 1
    /\ \E res \in {procfile_read(procfs_buffer, procfs_buffer_size, f_pos[h],
                                 ubuf[h], BUF_SIZE, FALSE)} :
           /\ ubuf' = [ubuf EXCEPT ![h] = res.ubuf]
           /\ f_pos' = [f_pos EXCEPT ![h] = res.off]
           /\ rret' = [rret EXCEPT ![h] = res.ret]
           /\ chan_log' = Append(chan_log,
                  [h |-> h, op |-> "read", text |-> Bytes(res.ubuf, res.ret),
                   ret |-> res.ret, fault |-> FALSE])
    /\ UNCHANGED <<pipeVars, mainVars, wpc, wt, pid, wret, childVars, m,
                   stored, mutex, tasks, console, procfs_buffer,
                   procfs_buffer_size, last_write>>

NextRepeat ==
    \/ repeat_write(0)
    \/ repeat_read(0)

SpecRepeat == InitChan /\ [][NextRepeat]_vars

\* C30: on one open handle, in every write-then-read pair whose written
\* identifier is the pid of a listed task, the read returns the whole
\* record of that task, whatever the length of the request and however
\* many pairs came before.
C30_RepeatedTransactions ==
    \A i \in DOMAIN chan_log :
        (i % 2 = 1 /\ i + 1 \in DOMAIN chan_log /\ MatchWriteAt(i)) =>
            /\ chan_log[i + 1].ret > 0
            /\ chan_log[i + 1].text
                  = RecordOf(Kstrtoint(chan_log[i].text).val)


\* Every worker multiply() was asked for has returned from thread().
AllWorkersReturned ==
    \A w \in Workers : w < n_thread => wpc[w] = "done"

\* C31: under fair scheduling a run with n_thread >= 1 and matching
\* dimensions reaches the state in which every worker has returned and
\* multiply() is past its join loop: the pipe reads, the mutex and the
\* wait() calls never block each other for ever, whichever child each
\* wait() reaps.
C31_RunTerminates ==
    (n_thread >= 1 /\ DimensionsMatch(m1, m2))
        ~> (AllWorkersReturned /\ JoinReturned /\ mutex = NoOwner)

\* C31 witness: a run of several workers, none of whose calls failed, has
\* passed the join and ended, and one worker printed the text of its
\* request instead of a record: a wait() of another worker had reaped its
\* child before its query.
C31_Witness ==
    /\ n_thread > 1
    /\ mpc = "exit"
    /\ AllWorkersReturned /\ JoinReturned
    /\ NoWorkerError
    /\ \E i \in DOMAIN console :
          /\ console[i].kind = "telemetry"
          /\ console[i].text # <<TAB>> \o OwnRecord(console[i].who)

====
